---- MODULE Spec2Model ----
(***************************************************************************)
(* Model of the pop-choice worker: the fetch handler of src/src/index.ts   *)
(* (origin policy, routing, body parsing, the embedding / vector-search /  *)
(* generation pipeline with its Opik trace and spans), the Convex action   *)
(* searchMovies of src/convex/movies.ts and the metric helpers of          *)
(* src/src/observability/metrics.ts.                                       *)
(*                                                                         *)
(* Strings that the code splits, trims, joins, measures or searches are    *)
(* sequences of tokens (one token per character, or per phrase where the   *)
(* code never looks inside the phrase).  An optional value (a header that  *)
(* may be null, a property that may be undefined) is a record              *)
(* [present, value].  Scores are in tenths (2 is 0.2), costs in            *)
(* nano-dollars (150 is 0.15 / 1_000_000 dollars).                         *)
(***************************************************************************)
EXTENDS Integers, Sequences, FiniteSets, TLC

\* ------------------------------------------------------------------ bounds

\* longest generated text, in tokens
MaxTextLen == 2

\* longest list the vector index returns in the searchMovies specification
MaxHits == 4

\* largest matchCount asked of searchMovies in the searchMovies specification
MaxMatchCount == 3

\* ------------------------------------------------------- optional values

Some(v) == [present |-> TRUE, value |-> v]

\* null / undefined; the value field is a placeholder that is never read
Absent == [present |-> FALSE, value |-> <<>>]

\* JavaScript truthiness of string | null | undefined: "" is falsy
Truthy(o) == o.present /\ o.value # <<>>

\* `${x}` of a string or undefined
TemplateStr(o) ==
    IF o.present THEN o.value ELSE <<"u", "n", "d", "e", "f", "i", "n", "e", "d">>

\* ------------------------------------------------------------ string helpers

Min(a, b) == IF a <= b THEN a ELSE b

RECURSIVE SplitFrom(_, _, _)
\* String.prototype.split(sep): the segments of s between occurrences of sep;
\* cur is the segment being read
SplitFrom(s, sep, cur) ==
    IF s = <<>> THEN <<cur>>
    ELSE IF Head(s) = sep THEN <<cur>> \o SplitFrom(Tail(s), sep, <<>>)
    ELSE SplitFrom(Tail(s), sep, Append(cur, Head(s)))

Split(s, sep) == SplitFrom(s, sep, <<>>)

RECURSIVE TrimStart(_)
TrimStart(s) ==
    IF s # <<>> /\ Head(s) = " " THEN TrimStart(Tail(s)) ELSE s

RECURSIVE TrimEnd(_)
TrimEnd(s) ==
    IF s # <<>> /\ s[Len(s)] = " " THEN TrimEnd(SubSeq(s, 1, Len(s) - 1)) ELSE s

\* String.prototype.trim()
Trim(s) == TrimEnd(TrimStart(s))

\* Array.prototype.includes
ArrayIncludes(arr, x) == \E i \in 1..Len(arr) : arr[i] = x

\* String.prototype.includes: needle occurs in text as a contiguous run
StringIncludes(text, needle) ==
    \E i \in 1..(Len(text) - Len(needle) + 1) :
        SubSeq(text, i, i + Len(needle) - 1) = needle

RECURSIVE Join(_, _)
\* Array.prototype.join(sep) of an array of strings
Join(arr, sep) ==
    IF arr = <<>> THEN <<>>
    ELSE IF Len(arr) = 1 THEN arr[1]
    ELSE arr[1] \o sep \o Join(Tail(arr), sep)

\* Array.prototype.filter
FilterSeq(arr, Keep(_)) == SelectSeq(arr, Keep)

\* Array.prototype.map
MapSeq(arr, F(_)) == [i \in 1..Len(arr) |-> F(arr[i])]

\* Math.ceil(n / d) for n >= 0, d > 0
CeilDiv(n, d) == (n + d - 1) \div d

\* ------------------------------------------------------------ origin policy

\* the fallback allow-list of getAllowedOrigins: 'http://localhost:5173'
LocalDevOrigin == <<"l">>

getAllowedOrigins(allowedOriginsVar) ==
    IF ~Truthy(allowedOriginsVar) THEN <<LocalDevOrigin>>
    ELSE MapSeq(Split(allowedOriginsVar.value, ","), Trim)

isOriginAllowed(o, allowedOrigins) ==
    IF ~Truthy(o) THEN FALSE
    ELSE ArrayIncludes(allowedOrigins, o.value)

corsHeaders_EchoOrigin(o, allowedOriginsVar) ==
    [allowOrigin      |-> o.value,
     allowMethods     |-> "POST, OPTIONS",
     allowHeaders     |-> "Content-Type, Authorization",
     allowCredentials |-> "true",
     contentType      |-> "application/json"]

corsHeaders(o, allowedOriginsVar) ==
    LET allowedOrigins == getAllowedOrigins(allowedOriginsVar)
        isAllowed      == isOriginAllowed(o, allowedOrigins)
    IN  [allowOrigin      |-> IF isAllowed /\ Truthy(o) THEN o.value ELSE <<>>,
         allowMethods     |-> "POST, OPTIONS",
         allowHeaders     |-> "Content-Type, Authorization",
         allowCredentials |-> "true",
         contentType      |-> "application/json"]

\* ------------------------------------------------------------------ metrics

calculateCost(promptTokens, completionTokens, model) ==
    LET gpt4oMini == [input |-> 150, output |-> 600]
        embedSmall == [input |-> 20, output |-> 0]
        rates == IF model = "gpt-4o-mini" THEN gpt4oMini
                 ELSE IF model = "text-embedding-3-small" THEN embedSmall
                 ELSE gpt4oMini
    IN  promptTokens * rates.input + completionTokens * rates.output

RECURSIVE SumScores(_)
\* results.reduce((acc, r) => acc + r.score, 0)
SumScores(results) ==
    IF results = <<>> THEN 0 ELSE Head(results).score + SumScores(Tail(results))

RECURSIVE MathMax(_)
\* Math.max(...xs); Math.max() is -Infinity, written -1000000
MathMax(xs) ==
    IF xs = <<>> THEN -1000000
    ELSE LET m == MathMax(Tail(xs)) IN IF Head(xs) >= m THEN Head(xs) ELSE m

RECURSIVE MathMin(_)
\* Math.min(...xs); Math.min() is +Infinity, written 1000000
MathMin(xs) ==
    IF xs = <<>> THEN 1000000
    ELSE LET m == MathMin(Tail(xs)) IN IF Head(xs) <= m THEN Head(xs) ELSE m

ScoreOf(r) == r.score

\* a quotient is kept exact, as numerator and denominator; 0 is 0/1
calculateAverageScore(results) ==
    IF Len(results) = 0 THEN [num |-> 0, den |-> 1]
    ELSE [num |-> SumScores(results), den |-> Len(results)]

calculateTopScore(results) ==
    IF Len(results) = 0 THEN 0 ELSE MathMax(MapSeq(results, ScoreOf))

calculateMinScore_NoEmptyGuard(results) == MathMin(MapSeq(results, ScoreOf))

calculateMinScore(results) ==
    IF Len(results) = 0 THEN 0 ELSE MathMin(MapSeq(results, ScoreOf))

\* ------------------------------------------------------------ searchMovies

\* ctx.vectorSearch("movies", "by_embedding", {vector, limit}): the store's
\* ranking of its documents for the vector, cut to the first `limit`
vectorSearch(ranking, limit) == SubSeq(ranking, 1, Min(limit, Len(ranking)))

filterByThreshold_Strict(results, matchThreshold) ==
    LET Keep(r) == r.score > matchThreshold IN FilterSeq(results, Keep)

\* results.filter((result) => result._score >= args.matchThreshold)
filterByThreshold(results, matchThreshold) ==
    LET Keep(r) == r.score >= matchThreshold IN FilterSeq(results, Keep)

\* getMovie: ctx.db.get(id), null when the document is gone
getMovie(docs, id) == docs[id]

\* Promise.all(filteredResults.map(...)): one row per filtered result, in
\* the order of filteredResults; content is doc?.content ?? ""
fetchDocuments(filteredResults, docs) ==
    LET Row(r) == LET doc == getMovie(docs, r.id)
                  IN  [id      |-> r.id,
                       content |-> IF doc.present THEN doc.value ELSE <<>>,
                       score   |-> r.score]
    IN  MapSeq(filteredResults, Row)

searchMovies(ranking, docs, matchThreshold, matchCount) ==
    fetchDocuments(filterByThreshold(vectorSearch(ranking, matchCount), matchThreshold), docs)

\* --------------------------------------------------------------- sentinel

\* the phrase the handler looks for: "Sorry, I don't know a movie at the moment"
SorryPhrase == <<"Sorry, I don't know a movie at the moment">>

\* the sentence the prompt asks for: the phrase followed by
\* ". Lets have another go with the questions from the previous section."
SentinelSentence ==
    SorryPhrase \o <<". Lets have another go with the questions from the previous section.">>

detectNoMatch_FullSentence(content) ==
    content.present /\ StringIncludes(content.value, SentinelSentence)

\* response.choices[0]?.message?.content?.includes("Sorry, ...") for a
\* response that has a first choice; undefined (falsy) when content is null
detectNoMatch(content) ==
    content.present /\ StringIncludes(content.value, SorryPhrase)

\* ------------------------------------------------------------------ inputs

\* values of env.ALLOWED_ORIGINS: unset, "", "a", "a,b", " a , b", "a,,", " "
AllowedOriginsValues ==
    { Absent, Some(<<>>), Some(<<"a">>), Some(<<"a", ",", "b">>),
      Some(<<" ", "a", " ", ",", " ", "b">>), Some(<<"a", ",", ",">>),
      Some(<<" ">>) }

\* values of the Origin header: none, "", "a", "b", the local default, "e"
Origins ==
    { Absent, Some(<<>>), Some(<<"a">>), Some(<<"b">>), Some(LocalDevOrigin),
      Some(<<"e">>) }

Methods == {"OPTIONS", "POST", "GET", "DELETE"}

Person1 == [userResponses |-> <<"a", "c", "t", "i", "o", "n">>,
            stringifiedQueryAndResponses |-> <<"Q: Genre? A: action">>]

Person2 == [userResponses |-> <<"f", "u", "n">>,
            stringifiedQueryAndResponses |-> <<"Q: Genre? A: fun">>]

Prefs == [present |-> TRUE, time |-> Some(<<"9", "0">>), numberOfPeople |-> Some(<<"2">>)]

\* movieSetUpPreferences: {}
EmptyPrefs == [present |-> TRUE, time |-> Absent, numberOfPeople |-> Absent]

NoPrefs == [present |-> FALSE, time |-> Absent, numberOfPeople |-> Absent]

PeopleArray(items) == [kind |-> "array", items |-> items]

\* what request.json() can meet: a body that is not JSON, the JSON value
\* null, and objects with and without the fields the handler reads
RequestBodies ==
    { [syntax |-> "invalid", movieSetUpPreferences |-> NoPrefs,
       peopleResponses |-> [kind |-> "undefined", items |-> <<>>]],
      [syntax |-> "null", movieSetUpPreferences |-> NoPrefs,
       peopleResponses |-> [kind |-> "undefined", items |-> <<>>]],
      [syntax |-> "object", movieSetUpPreferences |-> NoPrefs,
       peopleResponses |-> PeopleArray(<<Person1>>)],
      [syntax |-> "object", movieSetUpPreferences |-> Prefs,
       peopleResponses |-> [kind |-> "undefined", items |-> <<>>]],
      [syntax |-> "object", movieSetUpPreferences |-> Prefs,
       peopleResponses |-> [kind |-> "string", items |-> <<>>]],
      [syntax |-> "object", movieSetUpPreferences |-> EmptyPrefs,
       peopleResponses |-> PeopleArray(<<Person1>>)],
      [syntax |-> "object", movieSetUpPreferences |-> Prefs,
       peopleResponses |-> PeopleArray(<<>>)],
      [syntax |-> "object", movieSetUpPreferences |-> Prefs,
       peopleResponses |-> PeopleArray(<<Person1>>)],
      [syntax |-> "object", movieSetUpPreferences |-> Prefs,
       peopleResponses |-> PeopleArray(<<Person1, Person2>>)] }

\* dimensions of a text-embedding-3-small vector
EmbeddingDimensions == 1536

\* what openai.embeddings.create can resolve to
EmbeddingResponses ==
    { [data |-> <<>>],
      [data |-> <<[embedding |-> [length |-> EmbeddingDimensions]]>>] }

Hit(id, score) == [id |-> id, score |-> score]

\* states of the movie store as one query sees them: the ranking of its
\* documents by similarity (best first) and what db.get finds for each id
StoreStates ==
    { [ranking |-> <<>>, docs |-> <<>>],
      [ranking |-> <<Hit(1, 1)>>, docs |-> <<Some(<<"m1">>)>>],
      [ranking |-> <<Hit(1, 9), Hit(2, 2), Hit(3, 1)>>,
       docs |-> <<Some(<<"m1">>), Some(<<"m2">>), Some(<<"m3">>)>>],
      [ranking |-> <<Hit(1, 9), Hit(2, 5), Hit(3, 3)>>,
       docs |-> <<Some(<<"m1">>), Absent, Some(<<"m3">>)>>],
      [ranking |-> <<Hit(2, 5), Hit(1, 5)>>,
       docs |-> <<Some(<<>>), Some(<<"m2">>)>>] }

TextTokens == {SorryPhrase[1], SentinelSentence[2], "The Matrix (1999) fits the group."}

RECURSIVE SeqsUpTo(_, _)
\* the sequences over S of length at most n
SeqsUpTo(S, n) ==
    IF n = 0 THEN {<<>>}
    ELSE LET shorter == SeqsUpTo(S, n - 1)
         IN  shorter \cup {Append(t, x) : t \in shorter, x \in S}

\* message.content of the first choice: a text, or null
Contents == {Absent} \cup {Some(t) : t \in SeqsUpTo(TextTokens, MaxTextLen)}

Usages ==
    { Absent,
      Some([prompt_tokens |-> 1000, completion_tokens |-> 500, total_tokens |-> 1500]) }

\* what openai.chat.completions.create can resolve to
ChatResponses ==
    {[choices |-> <<>>, usage |-> u] : u \in Usages}
    \cup {[choices |-> <<[message |-> [content |-> c]]>>, usage |-> u] :
            c \in Contents, u \in Usages}

\* error.message of a rejected remote call
ErrorMessages == {"upstream unavailable"}

\* ------------------------------------------------------------------- state

VARIABLES
    allowedOriginsVar,  \* env.ALLOWED_ORIGINS
    origin,             \* request.headers.get('origin')
    method,             \* request.method
    pc,                 \* where the handler is: "start", the await it is
                        \* suspended at, "returned" or "threw"
    allowedHeaders,     \* const allowedHeaders
    requestData,        \* the parsed body
    calls,              \* the collaborators invoked so far, in order
    trace,              \* the Opik trace of the request
    spans,              \* the spans of the trace, in the order opened
    flushed,            \* flushes of the Opik client that completed
    totalCost,
    totalTokens,
    embedding,
    matchedResults,
    chatMessages,
    completion,         \* what openai.chat.completions.create resolved to
    pending,            \* the response built before the flush awaited
    flushSite,          \* "try" or "catch": where the awaited flush was called
    response,           \* the Response the handler returned
    sm,                 \* one run of the searchMovies action
    parked              \* the locals of a second invocation of fetch that is
                        \* suspended (or not yet started, or finished) while
                        \* this one runs

vars == <<allowedOriginsVar, origin, method, pc, allowedHeaders, requestData,
          calls, trace, spans, flushed, totalCost, totalTokens, embedding,
          matchedResults, chatMessages, completion, pending, flushSite, response, sm, parked>>

handlerVars == <<allowedOriginsVar, origin, method, pc, allowedHeaders,
                 requestData, calls, trace, spans, flushed, totalCost,
                 totalTokens, embedding, matchedResults, chatMessages, completion, pending,
                 flushSite, response>>

NoHeaders == [allowOrigin |-> <<>>, allowMethods |-> "", allowHeaders |-> "",
              allowCredentials |-> "", contentType |-> ""]

NoResponse == [status |-> 0, headers |-> NoHeaders, body |-> [kind |-> "none"]]

NoRequestData == [syntax |-> "unread", movieSetUpPreferences |-> NoPrefs,
                  peopleResponses |-> [kind |-> "undefined", items |-> <<>>]]

NoTrace == [created |-> 0, input |-> [kind |-> "none"], tags |-> <<>>,
            updates |-> <<>>, ends |-> 0]

NoMetadata == [present |-> FALSE]

NoEmbedding == [length |-> 0]

NoChatMessages == [system |-> <<>>, user |-> <<>>]

NoCompletion == [choices |-> <<>>, usage |-> Absent]

\* searchMovies is not running
SmIdle == [phase |-> "idle", ranking |-> <<>>, docs |-> <<>>, matchThreshold |-> 0,
           matchCount |-> 0, results |-> <<>>, movies |-> <<>>]

\* there is no second invocation
NoParked == [id |-> 0]

HandlerInit ==
    /\ allowedOriginsVar \in AllowedOriginsValues
    /\ origin \in Origins
    /\ method \in Methods
    /\ pc = "start"
    /\ allowedHeaders = NoHeaders
    /\ requestData = NoRequestData
    /\ calls = <<>>
    /\ trace = NoTrace
    /\ spans = <<>>
    /\ flushed = 0
    /\ totalCost = 0
    /\ totalTokens = 0
    /\ embedding = NoEmbedding
    /\ matchedResults = <<>>
    /\ chatMessages = NoChatMessages
    /\ completion = NoCompletion
    /\ pending = NoResponse
    /\ flushSite = "none"
    /\ response = NoResponse

Init == HandlerInit /\ sm = SmIdle /\ parked = NoParked

\* ------------------------------------------------------------------ routing

Route_OriginFirst(m, originAllowed) ==
    IF ~originAllowed THEN "forbidden"
    ELSE IF m = "OPTIONS" THEN "preflight"
    ELSE IF m # "POST" THEN "methodNotAllowed"
    ELSE "proceed"

Route_OriginCheckedForPostOnly(m, originAllowed) ==
    IF m = "OPTIONS" THEN "preflight"
    ELSE IF m # "POST" THEN "methodNotAllowed"
    ELSE IF ~originAllowed THEN "forbidden"
    ELSE "proceed"

Route_NoMethodCheck(m, originAllowed) ==
    IF m = "OPTIONS" THEN "preflight"
    ELSE IF ~originAllowed THEN "forbidden"
    ELSE "proceed"

\* the three early returns of fetch, in the order the code tests them
Route(m, originAllowed) ==
    IF m = "OPTIONS" THEN "preflight"
    ELSE IF ~originAllowed THEN "forbidden"
    ELSE IF m # "POST" THEN "methodNotAllowed"
    ELSE "proceed"

RouteOfRequest ==
    Route(method, isOriginAllowed(origin, getAllowedOrigins(allowedOriginsVar)))

JsonBody(fields) == [kind |-> "json"] @@ fields

Respond(status, body) ==
    /\ allowedHeaders' = corsHeaders(origin, allowedOriginsVar)
    /\ response' = [status |-> status, headers |-> allowedHeaders', body |-> body]
    /\ pc' = "returned"
    /\ UNCHANGED <<allowedOriginsVar, origin, method, requestData, calls, trace,
                   spans, flushed, totalCost, totalTokens, embedding,
                   matchedResults, chatMessages, completion, pending, flushSite, sm, parked>>

\* OPTIONS: new Response(null, {status: 204})
Preflight ==
    /\ pc = "start"
    /\ RouteOfRequest = "preflight"
    /\ Respond(204, [kind |-> "null"])

OriginNotAllowed ==
    /\ pc = "start"
    /\ RouteOfRequest = "forbidden"
    /\ Respond(403, JsonBody([error |-> <<"Origin not allowed">>]))

MethodNotAllowed ==
    /\ pc = "start"
    /\ RouteOfRequest = "methodNotAllowed"
    /\ Respond(405, JsonBody([error |-> <<"Method ", method, " not allowed">>]))

\* the clients are constructed and request.json() is awaited
AwaitBody ==
    /\ pc = "start"
    /\ RouteOfRequest = "proceed"
    /\ allowedHeaders' = corsHeaders(origin, allowedOriginsVar)
    /\ calls' = Append(calls, "request.json")
    /\ pc' = "json"
    /\ UNCHANGED <<allowedOriginsVar, origin, method, requestData, trace, spans,
                   flushed, totalCost, totalTokens, embedding, matchedResults,
                   chatMessages, completion, pending, flushSite, response, sm, parked>>

\* ------------------------------------------------------------ body parsing

\* lines 78-89 throw: request.json() rejects, or a property of null or
\* undefined is read, or peopleResponses has no map method
ParseThrows(b) ==
    \/ b.syntax # "object"
    \/ ~b.movieSetUpPreferences.present
    \/ b.peopleResponses.kind # "array"

UserResponsesOf(person) == person.userResponses

TranscriptOf(person) == person.stringifiedQueryAndResponses

allParticipantsResponses(b) ==
    Join(MapSeq(b.peopleResponses.items, UserResponsesOf), <<"\n">>)

allParticipantsResponsesAndAnswers(b) ==
    Join(MapSeq(b.peopleResponses.items, TranscriptOf), <<"\n">>)

\* `${availableRunTime}\n${allParticipantsResponses}`
EmbeddingInput(b) ==
    TemplateStr(b.movieSetUpPreferences.time) \o <<"\n">> \o allParticipantsResponses(b)

OpenSpan(name, input) ==
    [name |-> name, input |-> input, output |-> [kind |-> "none"], ends |-> 0]

CloseSpan_UpdateOnly(ss, i, output) ==
    [ss EXCEPT ![i].output = output]

\* span.update({output}) followed by span.end()
CloseSpan(ss, i, output) ==
    [ss EXCEPT ![i].output = output, ![i].ends = @ + 1]

\* trace.update({output, metadata}) followed by trace.end()
EndTrace(t, output, metadata) ==
    [t EXCEPT !.updates = Append(@, [output |-> output, metadata |-> metadata]),
              !.ends = @ + 1]

\* the await of request.json() ends in an exception, or the reads of the
\* parsed value that follow it do: nothing catches it
BodyRejected ==
    /\ pc = "json"
    /\ \E b \in RequestBodies :
        /\ ParseThrows(b)
        /\ requestData' = b
    /\ pc' = "threw"
    /\ UNCHANGED <<allowedOriginsVar, origin, method, allowedHeaders, calls,
                   trace, spans, flushed, totalCost, totalTokens, embedding,
                   matchedResults, chatMessages, completion, pending, flushSite, response, sm, parked>>

\* the body is read, the trace and the embedding span are opened and
\* openai.embeddings.create is awaited
BodyParsed ==
    /\ pc = "json"
    /\ \E b \in RequestBodies :
        /\ ~ParseThrows(b)
        /\ requestData' = b
        /\ trace' = [created |-> trace.created + 1,
                     input   |-> [numberOfPeople       |-> b.movieSetUpPreferences.numberOfPeople,
                                  availableRunTime     |-> b.movieSetUpPreferences.time,
                                  userResponses        |-> allParticipantsResponses(b),
                                  peopleResponsesCount |-> Len(b.peopleResponses.items)],
                     tags    |-> << <<"production">>,
                                    <<"people-">> \o TemplateStr(b.movieSetUpPreferences.numberOfPeople),
                                    <<"runtime-">> \o TemplateStr(b.movieSetUpPreferences.time) >>,
                     updates |-> <<>>,
                     ends    |-> 0]
        /\ spans' = <<OpenSpan("generate-embedding",
                               [text        |-> EmbeddingInput(b),
                                model       |-> "text-embedding-3-small",
                                inputLength |-> Len(EmbeddingInput(b))])>>
    /\ totalCost' = 0
    /\ totalTokens' = 0
    /\ calls' = calls \o <<"opik.trace", "openai.embeddings.create">>
    /\ pc' = "embedding"
    /\ UNCHANGED <<allowedOriginsVar, origin, method, allowedHeaders, flushed,
                   embedding, matchedResults, chatMessages, completion, pending, flushSite,
                   response, sm, parked>>

\* ---------------------------------------------------------------- pipeline

EmbeddingErrorLabel == <<"Error creating embeddings for userResponses">>

SearchErrorLabel == <<"Error matching documents in Convex">>

GenerationErrorLabel == <<"Error creating chat completion">>

\* the catch blocks of the embedding and of the search stage: the current
\* span and the trace are closed, the flush is awaited, a 500 is prepared
CatchEarlyStage(label, message) ==
    /\ spans' = CloseSpan(spans, Len(spans), [error |-> message])
    /\ trace' = EndTrace(trace, [error |-> label], NoMetadata)
    /\ calls' = Append(calls, "opik.flush")
    /\ pending' = [status  |-> 500, headers |-> allowedHeaders,
                   body    |-> JsonBody([error |-> label, details |-> message])]
    /\ flushSite' = "catch"
    /\ pc' = "flush"

\* the catch block of the generation stage, entered with the running totals
\* as they are when the exception is raised
CatchGeneration(message, tokens, cost) ==
    /\ spans' = CloseSpan(spans, Len(spans), [error |-> message])
    /\ trace' = EndTrace(trace, [error |-> GenerationErrorLabel],
                         [present |-> TRUE, totalTokens |-> tokens, totalCost |-> cost,
                          success |-> FALSE, errorMessage |-> message])
    /\ calls' = Append(calls, "opik.flush")
    /\ pending' = [status  |-> 500, headers |-> allowedHeaders,
                   body    |-> JsonBody([error |-> GenerationErrorLabel, details |-> message])]
    /\ flushSite' = "catch"
    /\ pc' = "flush"

EmbeddingRejects_NoFlush ==
    /\ pc = "embedding"
    /\ \E message \in ErrorMessages :
        /\ spans' = CloseSpan(spans, Len(spans), [error |-> message])
        /\ trace' = EndTrace(trace, [error |-> EmbeddingErrorLabel], NoMetadata)
        /\ response' = [status  |-> 500, headers |-> allowedHeaders,
                        body    |-> JsonBody([error |-> EmbeddingErrorLabel,
                                              details |-> message])]
    /\ pc' = "returned"
    /\ UNCHANGED <<allowedOriginsVar, origin, method, allowedHeaders, requestData,
                   calls, flushed, totalCost, totalTokens, embedding, matchedResults,
                   chatMessages, completion, pending, flushSite, sm, parked>>

EmbeddingRejects ==
    /\ pc = "embedding"
    /\ \E message \in ErrorMessages : CatchEarlyStage(EmbeddingErrorLabel, message)
    /\ UNCHANGED <<allowedOriginsVar, origin, method, allowedHeaders, requestData,
                   flushed, totalCost, totalTokens, embedding, matchedResults,
                   chatMessages, completion, response, sm, parked>>

\* embeddingResponse.data[0].embedding of a response without data
EmbeddingMalformed ==
    /\ pc = "embedding"
    /\ \E r \in EmbeddingResponses :
        /\ r.data = <<>>
        /\ CatchEarlyStage(EmbeddingErrorLabel, "TypeError")
    /\ UNCHANGED <<allowedOriginsVar, origin, method, allowedHeaders, requestData,
                   flushed, totalCost, totalTokens, embedding, matchedResults,
                   chatMessages, completion, response, sm, parked>>

\* the embedding arrives: its cost is added, its span closed, the search span
\* opened and convex.action(api.movies.searchMovies) awaited
EmbeddingResolves ==
    /\ pc = "embedding"
    /\ \E r \in EmbeddingResponses :
        /\ r.data # <<>>
        /\ embedding' = r.data[1].embedding
    /\ LET estimatedTokens == CeilDiv(Len(EmbeddingInput(requestData)), 4)
       IN  totalCost' = totalCost + calculateCost(estimatedTokens, 0, "text-embedding-3-small")
    /\ spans' = Append(CloseSpan(spans, 1, [dimensions |-> embedding'.length]),
                       OpenSpan("vector-search",
                                [threshold |-> 2, matchCount |-> 6,
                                 embeddingDimensions |-> embedding'.length]))
    /\ calls' = Append(calls, "convex.searchMovies")
    /\ pc' = "search"
    /\ UNCHANGED <<allowedOriginsVar, origin, method, allowedHeaders, requestData,
                   trace, flushed, totalTokens, matchedResults, chatMessages, completion,
                   pending, flushSite, response, sm, parked>>

SearchRejects_Retry ==
    /\ pc = "search"
    /\ calls' = Append(calls, "convex.searchMovies")
    /\ UNCHANGED <<allowedOriginsVar, origin, method, pc, allowedHeaders, requestData,
                   trace, spans, flushed, totalCost, totalTokens, embedding,
                   matchedResults, chatMessages, completion, pending, flushSite,
                   response, sm, parked>>

SearchRejects ==
    /\ pc = "search"
    /\ \E message \in ErrorMessages : CatchEarlyStage(SearchErrorLabel, message)
    /\ UNCHANGED <<allowedOriginsVar, origin, method, allowedHeaders, requestData,
                   flushed, totalCost, totalTokens, embedding, matchedResults,
                   chatMessages, completion, response, sm, parked>>

ContentOf(movie) == movie.content

IsTruthyString(str) == str # <<>>

movieRecommendationsResultsString_NoFilter(results) ==
    Join(MapSeq(results, ContentOf), <<"\n\n">>)

\* matchedResults.map(content).filter(content => content).join('\n\n')
movieRecommendationsResultsString(results) ==
    Join(FilterSeq(MapSeq(results, ContentOf), IsTruthyString), <<"\n\n">>)

BuildChatMessages(b, results) ==
    [system |-> <<"You are an expert movie buff ... There are ">>
                \o TemplateStr(b.movieSetUpPreferences.numberOfPeople)
                \o <<" people in the group ... 4 questions from ">>
                \o TemplateStr(b.movieSetUpPreferences.numberOfPeople)
                \o <<" people. ... Here is the format of the response: ...">>,
     user   |-> <<"Questions and Answers from ">>
                \o TemplateStr(b.movieSetUpPreferences.numberOfPeople)
                \o <<" people: ">> \o allParticipantsResponsesAndAnswers(b)
                \o <<"\n Movie Recommendations: ">>
                \o movieRecommendationsResultsString(results)]

\* the matches arrive: the search span is closed with the score statistics,
\* the prompt is built, the generation span opened and
\* openai.chat.completions.create awaited
SearchResolves ==
    /\ pc = "search"
    /\ \E store \in StoreStates :
        matchedResults' = searchMovies(store.ranking, store.docs, 2, 6)
    /\ chatMessages' = BuildChatMessages(requestData, matchedResults')
    /\ spans' = Append(CloseSpan(spans, 2,
                                 [resultsCount |-> Len(matchedResults'),
                                  topScore     |-> calculateTopScore(matchedResults'),
                                  avgScore     |-> calculateAverageScore(matchedResults'),
                                  minScore     |-> calculateMinScore(matchedResults')]),
                       OpenSpan("llm-generation",
                                [model |-> "gpt-4o-mini", temperature |-> 11,
                                 systemPromptLength |-> Len(chatMessages'.system),
                                 userPromptLength |-> Len(chatMessages'.user),
                                 movieContextLength |->
                                     Len(movieRecommendationsResultsString(matchedResults'))]))
    /\ calls' = Append(calls, "openai.chat.completions.create")
    /\ pc' = "generation"
    /\ UNCHANGED <<allowedOriginsVar, origin, method, allowedHeaders, requestData,
                   trace, flushed, totalCost, totalTokens, embedding, completion,
                   pending, flushSite, response, sm, parked>>

\* x?.field || 0 of the optional usage object
UsageOrZero(usage, field) == IF usage.present THEN usage.value[field] ELSE 0

buildResponseObject_KeepCandidates(content, results) ==
    [content |-> IF content.present /\ ~detectNoMatch(content) THEN content.value ELSE <<>>,
     movieRecommendations |-> Some(results),
     noMatchFromLLM |-> detectNoMatch(content)]

\* lines 292-307: the response object starts as {content: '',
\* movieRecommendations: null, noMatchFromLLM: false}; content || '' is ''
\* for a null content
buildResponseObject(content, results) ==
    IF detectNoMatch(content)
    THEN [content |-> <<>>, movieRecommendations |-> Absent, noMatchFromLLM |-> TRUE]
    ELSE [content |-> IF Truthy(content) THEN content.value ELSE <<>>,
          movieRecommendations |-> Some(results),
          noMatchFromLLM |-> FALSE]

GenerationRejects ==
    /\ pc = "generation"
    /\ \E message \in ErrorMessages : CatchGeneration(message, totalTokens, totalCost)
    /\ UNCHANGED <<allowedOriginsVar, origin, method, allowedHeaders, requestData,
                   flushed, totalCost, totalTokens, embedding, matchedResults,
                   chatMessages, completion, response, sm, parked>>

\* a completion without choices: the totals are assigned, then
\* response.choices[0].message throws inside the try block
GenerationMalformed ==
    /\ pc = "generation"
    /\ \E r \in ChatResponses :
        /\ r.choices = <<>>
        /\ completion' = r
        /\ totalTokens' = UsageOrZero(r.usage, "total_tokens")
        /\ totalCost' = totalCost + calculateCost(UsageOrZero(r.usage, "prompt_tokens"),
                                                  UsageOrZero(r.usage, "completion_tokens"),
                                                  "gpt-4o-mini")
    /\ CatchGeneration("TypeError", totalTokens', totalCost')
    /\ UNCHANGED <<allowedOriginsVar, origin, method, allowedHeaders, requestData,
                   flushed, embedding, matchedResults, chatMessages, response, sm, parked>>

\* the completion arrives: totals, the generation span, the response object,
\* the trace update and end, and the flush that is awaited before the return
GenerationResolves ==
    /\ pc = "generation"
    /\ \E r \in ChatResponses :
        /\ r.choices # <<>>
        /\ completion' = r
        /\ totalTokens' = UsageOrZero(r.usage, "total_tokens")
        /\ totalCost' = totalCost + calculateCost(UsageOrZero(r.usage, "prompt_tokens"),
                                                  UsageOrZero(r.usage, "completion_tokens"),
                                                  "gpt-4o-mini")
        /\ LET content == r.choices[1].message.content
               responseObject == buildResponseObject(content, matchedResults)
           IN  /\ spans' = CloseSpan(spans, 3,
                               [responseLength   |-> IF content.present THEN Len(content.value) ELSE 0,
                                promptTokens     |-> UsageOrZero(r.usage, "prompt_tokens"),
                                completionTokens |-> UsageOrZero(r.usage, "completion_tokens"),
                                totalTokens      |-> UsageOrZero(r.usage, "total_tokens")])
               /\ trace' = EndTrace(trace, responseObject,
                                    [present |-> TRUE, totalTokens |-> totalTokens',
                                     totalCost |-> totalCost', success |-> TRUE])
               /\ pending' = [status |-> 200, headers |-> allowedHeaders,
                              body |-> JsonBody(responseObject)]
    /\ calls' = Append(calls, "opik.flush")
    /\ flushSite' = "try"
    /\ pc' = "flush"
    /\ UNCHANGED <<allowedOriginsVar, origin, method, allowedHeaders, requestData,
                   flushed, embedding, matchedResults, chatMessages, response, sm, parked>>

\* ------------------------------------------------------------------- flush

\* opikClient.flush() completes and the prepared response is returned
FlushResolves ==
    /\ pc = "flush"
    /\ flushed' = flushed + 1
    /\ response' = pending
    /\ pc' = "returned"
    /\ UNCHANGED <<allowedOriginsVar, origin, method, allowedHeaders, requestData,
                   calls, trace, spans, totalCost, totalTokens, embedding,
                   matchedResults, chatMessages, completion, pending, flushSite, sm, parked>>

\* the flush awaited inside the try block of the generation stage rejects:
\* the catch block of that stage runs
FlushRejectsInTry ==
    /\ pc = "flush"
    /\ flushSite = "try"
    /\ \E message \in ErrorMessages : CatchGeneration(message, totalTokens, totalCost)
    /\ UNCHANGED <<allowedOriginsVar, origin, method, allowedHeaders, requestData,
                   flushed, totalCost, totalTokens, embedding, matchedResults,
                   chatMessages, completion, response, sm, parked>>

\* the flush awaited inside a catch block rejects: nothing catches it
FlushRejectsInCatch ==
    /\ pc = "flush"
    /\ flushSite = "catch"
    /\ pc' = "threw"
    /\ UNCHANGED <<allowedOriginsVar, origin, method, allowedHeaders, requestData,
                   calls, trace, spans, flushed, totalCost, totalTokens, embedding,
                   matchedResults, chatMessages, completion, pending, flushSite, response, sm, parked>>

Next ==
    \/ Preflight
    \/ OriginNotAllowed
    \/ MethodNotAllowed
    \/ AwaitBody
    \/ BodyRejected
    \/ BodyParsed
    \/ EmbeddingRejects
    \/ EmbeddingMalformed
    \/ EmbeddingResolves
    \/ SearchRejects
    \/ SearchResolves
    \/ GenerationRejects
    \/ GenerationMalformed
    \/ GenerationResolves
    \/ FlushResolves
    \/ FlushRejectsInTry
    \/ FlushRejectsInCatch

Spec == Init /\ [][Next]_vars

\* ----------------------------------------------- the searchMovies action

SearchScores == {1, 2, 5}

SearchThresholds == {2, 5}

IsBestFirst(scores) ==
    \A i \in 1..(Len(scores) - 1) : scores[i] >= scores[i + 1]

\* rankings of n documents, best first, the ids in rank order or against it
RankingsOf(n) ==
    { [i \in 1..n |-> Hit(IF up THEN i ELSE n + 1 - i, scores[i])] :
        up \in BOOLEAN, scores \in {sc \in [1..n -> SearchScores] : IsBestFirst(sc)} }

\* what db.get finds for the n ids: the document, or null
DocTablesOf(n) ==
    { [i \in 1..n |-> IF i \in gone THEN Absent ELSE Some(<<"movie", i>>)] :
        gone \in SUBSET (1..n) }

\* no handler runs
HandlerIdle ==
    /\ allowedOriginsVar = Absent
    /\ origin = Absent
    /\ method = "POST"
    /\ pc = "idle"
    /\ allowedHeaders = NoHeaders
    /\ requestData = NoRequestData
    /\ calls = <<>>
    /\ trace = NoTrace
    /\ spans = <<>>
    /\ flushed = 0
    /\ totalCost = 0
    /\ totalTokens = 0
    /\ embedding = NoEmbedding
    /\ matchedResults = <<>>
    /\ chatMessages = NoChatMessages
    /\ completion = NoCompletion
    /\ pending = NoResponse
    /\ flushSite = "none"
    /\ response = NoResponse

\* searchMovies is called with some arguments on some store
InitSearch ==
    /\ HandlerIdle
    /\ parked = NoParked
    /\ \E n \in 0..MaxHits :
        \E ranking \in RankingsOf(n), docs \in DocTablesOf(n),
           matchThreshold \in SearchThresholds, matchCount \in 1..MaxMatchCount :
            sm = [phase |-> "called", ranking |-> ranking, docs |-> docs,
                  matchThreshold |-> matchThreshold, matchCount |-> matchCount,
                  results |-> <<>>, movies |-> <<>>]

\* await ctx.vectorSearch(...)
SmVectorSearch ==
    /\ sm.phase = "called"
    /\ sm' = [sm EXCEPT !.phase = "searched",
                        !.results = vectorSearch(sm.ranking, sm.matchCount)]
    /\ UNCHANGED <<handlerVars, parked>>

\* the filter, the document fetches and the return
SmFilterAndFetch ==
    /\ sm.phase = "searched"
    /\ sm' = [sm EXCEPT !.phase = "returned",
                        !.movies = fetchDocuments(
                                       filterByThreshold(sm.results, sm.matchThreshold),
                                       sm.docs)]
    /\ UNCHANGED <<handlerVars, parked>>

NextSearch == SmVectorSearch \/ SmFilterAndFetch

SpecSearch == InitSearch /\ [][NextSearch]_vars

\* ------------------------------------------- two invocations of fetch

\* everything fetch declares (const, let, the clients it constructs and what
\* they recorded) belongs to one invocation; only env is common to both
Locals(id) ==
    [id |-> id, origin |-> origin, method |-> method, pc |-> pc,
     allowedHeaders |-> allowedHeaders, requestData |-> requestData,
     calls |-> calls, trace |-> trace, spans |-> spans, flushed |-> flushed,
     totalCost |-> totalCost, totalTokens |-> totalTokens,
     embedding |-> embedding, matchedResults |-> matchedResults,
     chatMessages |-> chatMessages, completion |-> completion,
     pending |-> pending, flushSite |-> flushSite, response |-> response]

FreshLocals(id, o, m) ==
    [id |-> id, origin |-> o, method |-> m, pc |-> "start",
     allowedHeaders |-> NoHeaders, requestData |-> NoRequestData,
     calls |-> <<>>, trace |-> NoTrace, spans |-> <<>>, flushed |-> 0,
     totalCost |-> 0, totalTokens |-> 0,
     embedding |-> NoEmbedding, matchedResults |-> <<>>,
     chatMessages |-> NoChatMessages, completion |-> NoCompletion,
     pending |-> NoResponse, flushSite |-> "none", response |-> NoResponse]

ResumedTotals_ModuleLevel(saved) ==
    [totalCost |-> totalCost, totalTokens |-> totalTokens]

\* let totalCost = 0; let totalTokens = 0 are declared inside fetch (lines
\* 104-105): the invocation that resumes finds its own values
ResumedTotals(saved) ==
    [totalCost |-> saved.totalCost, totalTokens |-> saved.totalTokens]

\* the running invocation is at an await (or has not started, or is done)
\* and the runtime runs the other one
Switch ==
    /\ parked.id # 0
    /\ parked' = Locals(3 - parked.id)
    /\ origin' = parked.origin
    /\ method' = parked.method
    /\ pc' = parked.pc
    /\ allowedHeaders' = parked.allowedHeaders
    /\ requestData' = parked.requestData
    /\ calls' = parked.calls
    /\ trace' = parked.trace
    /\ spans' = parked.spans
    /\ flushed' = parked.flushed
    /\ totalCost' = ResumedTotals(parked).totalCost
    /\ totalTokens' = ResumedTotals(parked).totalTokens
    /\ embedding' = parked.embedding
    /\ matchedResults' = parked.matchedResults
    /\ chatMessages' = parked.chatMessages
    /\ completion' = parked.completion
    /\ pending' = parked.pending
    /\ flushSite' = parked.flushSite
    /\ response' = parked.response
    /\ UNCHANGED <<allowedOriginsVar, sm>>

\* the requests and the replies of the collaborators met by the two
\* invocations
ConcOrigins == {Absent, Some(<<"a">>)}

ConcMethods == {"OPTIONS", "POST", "GET"}

ConcBodies ==
    {b \in RequestBodies :
        \/ b.syntax = "invalid"
        \/ /\ ~ParseThrows(b)
           /\ Len(b.peopleResponses.items) >= 1}

ConcCompletions ==
    { NoCompletion,
      [choices |-> <<[message |-> [content |-> Some(<<"The Matrix (1999) fits the group.">>)]]>>,
       usage |-> Some([prompt_tokens |-> 1000, completion_tokens |-> 500,
                       total_tokens |-> 1500])],
      [choices |-> <<[message |-> [content |-> Some(SentinelSentence)]]>>,
       usage |-> Absent] }

ConcInputs ==
    /\ requestData \in ConcBodies \cup {NoRequestData}
    /\ Len(matchedResults) \in {0, 3}
    /\ completion \in ConcCompletions

InitConc ==
    /\ HandlerInit
    /\ allowedOriginsVar = Some(<<"a", ",", "b">>)
    /\ origin \in ConcOrigins
    /\ method \in ConcMethods
    /\ sm = SmIdle
    /\ \E o \in ConcOrigins, m \in ConcMethods : parked = FreshLocals(2, o, m)

\* a step of the running invocation, or the runtime runs the other one
NextConc ==
    \/ Preflight /\ ConcInputs'
    \/ OriginNotAllowed /\ ConcInputs'
    \/ MethodNotAllowed /\ ConcInputs'
    \/ AwaitBody /\ ConcInputs'
    \/ BodyRejected /\ ConcInputs'
    \/ BodyParsed /\ ConcInputs'
    \/ EmbeddingRejects /\ ConcInputs'
    \/ EmbeddingMalformed /\ ConcInputs'
    \/ EmbeddingResolves /\ ConcInputs'
    \/ SearchRejects /\ ConcInputs'
    \/ SearchResolves /\ ConcInputs'
    \/ GenerationRejects /\ ConcInputs'
    \/ GenerationMalformed /\ ConcInputs'
    \/ GenerationResolves /\ ConcInputs'
    \/ FlushResolves /\ ConcInputs'
    \/ FlushRejectsInTry /\ ConcInputs'
    \/ FlushRejectsInCatch /\ ConcInputs'
    \/ Switch

SpecConc == InitConc /\ [][NextConc]_vars

\* ------------------------------------------------------------------ claims

\* the caller's origin is present and is an entry of the configured allow-list
OriginInAllowList ==
    /\ origin.present
    /\ origin.value # <<>>
    /\ \E i \in 1..Len(getAllowedOrigins(allowedOriginsVar)) :
           getAllowedOrigins(allowedOriginsVar)[i] = origin.value

\* no body was read, no trace opened, no remote service called
NothingRan == calls = <<>> /\ trace.created = 0 /\ spans = <<>> /\ flushed = 0

RemoteCalls ==
    {"openai.embeddings.create", "convex.searchMovies", "openai.chat.completions.create"}

NoRemoteCall == \A i \in 1..Len(calls) : calls[i] \notin RemoteCalls

\* C1 as stated: a request whose origin is absent or not allow-listed is
\* answered 403 with an empty Access-Control-Allow-Origin whatever its
\* method, OPTIONS included, and nothing else runs for it.
C1_AsStated ==
    ~OriginInAllowList =>
        /\ NothingRan
        /\ pc \in {"start", "returned"}
        /\ pc = "returned" =>
               response.status = 403 /\ response.headers.allowOrigin = <<>>

\* C1 amended: a request whose origin is absent or not allow-listed and whose
\* method is not OPTIONS is answered 403 with an empty
\* Access-Control-Allow-Origin and the body {error: 'Origin not allowed'},
\* and no body parsing, trace creation or remote call runs for it.
C1_DisallowedOriginRejected ==
    (~OriginInAllowList /\ method # "OPTIONS") =>
        /\ NothingRan
        /\ pc \in {"start", "returned"}
        /\ pc = "returned" =>
               /\ response.status = 403
               /\ response.headers.allowOrigin = <<>>
               /\ response.body = JsonBody([error |-> <<"Origin not allowed">>])

C1_Witness ==
    /\ pc = "returned"
    /\ method \in {"POST", "GET"}
    /\ origin \in {Absent, Some(<<"e">>)}
    /\ response.status = 403

\* C2: a request with method OPTIONS, whatever its origin, is answered 204
\* with a null body and the five CORS / content-type headers, and no body
\* parsing, trace creation or remote call runs for it.
C2_PreflightAnswered ==
    method = "OPTIONS" =>
        /\ NothingRan
        /\ pc \in {"start", "returned"}
        /\ pc = "returned" =>
               /\ response.status = 204
               /\ response.body = [kind |-> "null"]
               /\ DOMAIN response.headers =
                      {"allowOrigin", "allowMethods", "allowHeaders",
                       "allowCredentials", "contentType"}
               /\ response.headers.allowMethods = "POST, OPTIONS"
               /\ response.headers.allowHeaders = "Content-Type, Authorization"
               /\ response.headers.allowCredentials = "true"
               /\ response.headers.contentType = "application/json"

C2_Witness ==
    /\ pc = "returned"
    /\ method = "OPTIONS"
    /\ ~OriginInAllowList
    /\ response.status = 204

\* C3: a request from an allow-listed origin whose method is neither POST
\* nor OPTIONS is answered 405 with an {error} body; no embedding, retrieval
\* or generation call is made and no trace is opened.
C3_MethodNotAllowed ==
    (OriginInAllowList /\ method \notin {"POST", "OPTIONS"}) =>
        /\ NothingRan
        /\ pc \in {"start", "returned"}
        /\ pc = "returned" =>
               /\ response.status = 405
               /\ response.body = JsonBody([error |-> <<"Method ", method, " not allowed">>])

C3_Witness ==
    /\ pc = "returned"
    /\ method = "DELETE"
    /\ OriginInAllowList
    /\ response.status = 405

FlushCalls == Cardinality({i \in 1..Len(calls) : calls[i] = "opik.flush"})

\* the 500 response of a request one of whose three remote calls was rejected
\* (and whose flush was called once)
RemoteCallFailed ==
    /\ pc = "returned"
    /\ response.status = 500
    /\ response.body.details \in ErrorMessages
    /\ FlushCalls = 1

StageLabel(n) ==
    IF n = 1 THEN EmbeddingErrorLabel
    ELSE IF n = 2 THEN SearchErrorLabel
    ELSE GenerationErrorLabel

\* C4: when one of the three remote calls fails, the response is one 500
\* whose error names the failing stage, and the trace is finalized with
\* metadata success = false, totalCost and totalTokens, and flushed exactly
\* once; at each of the three stages.
C4_FailureFinalizesTrace ==
    RemoteCallFailed =>
        /\ response.body.error = StageLabel(Len(spans))
        /\ EmbeddingErrorLabel # SearchErrorLabel
        /\ SearchErrorLabel # GenerationErrorLabel
        /\ EmbeddingErrorLabel # GenerationErrorLabel
        /\ flushed = 1
        /\ trace.ends = 1
        /\ LET final == trace.updates[Len(trace.updates)].metadata
           IN  /\ final.present
               /\ final.success = FALSE
               /\ final.totalCost = totalCost
               /\ final.totalTokens = totalTokens

\* the text of the completion's first choice (null when it has none)
GeneratedText == completion.choices[1].message.content

\* C5 as stated: in a 200 response noMatchFromLLM is true exactly when the
\* generated text contains the whole sentinel sentence.
C5_AsStated ==
    (pc = "returned" /\ response.status = 200) =>
        (response.body.noMatchFromLLM <=>
            (GeneratedText.present
             /\ StringIncludes(GeneratedText.value, SentinelSentence)))

\* C5 amended: in a 200 response noMatchFromLLM is true exactly when the
\* generated text contains the phrase "Sorry, I don't know a movie at the
\* moment" (the start of the sentinel sentence, so every text containing the
\* whole sentence too); a text without the phrase, or a null text, is
\* classified false.
C5_SorryPhraseDetected ==
    (pc = "returned" /\ response.status = 200) =>
        /\ response.body.noMatchFromLLM <=>
               (GeneratedText.present
                /\ \E i \in 1..Len(GeneratedText.value) :
                       GeneratedText.value[i] = SorryPhrase[1])
        /\ (GeneratedText.present
            /\ StringIncludes(GeneratedText.value, SentinelSentence))
               => response.body.noMatchFromLLM

C5_Witness ==
    /\ pc = "returned"
    /\ response.status = 200
    /\ response.body.noMatchFromLLM
    /\ GeneratedText.present
    /\ ~StringIncludes(GeneratedText.value, SentinelSentence)

\* C6: in a 200 response movieRecommendations is null exactly when
\* noMatchFromLLM is true; otherwise it is the retriever's list, unchanged
\* and in order, and content is the generated text ('' for a null text).
C6_CandidatesNullIffNoMatch ==
    (pc = "returned" /\ response.status = 200) =>
        /\ ~response.body.movieRecommendations.present <=> response.body.noMatchFromLLM
        /\ ~response.body.noMatchFromLLM =>
               /\ response.body.movieRecommendations = Some(matchedResults)
               /\ response.body.content =
                      IF GeneratedText.present THEN GeneratedText.value ELSE <<>>

C6_Witness ==
    /\ pc = "returned"
    /\ response.status = 200
    /\ response.body.noMatchFromLLM
    /\ ~response.body.movieRecommendations.present
    /\ Len(matchedResults) = 2

\* the body lacks what the handler reads: it is not JSON, or has no
\* movieSetUpPreferences, no time or numberOfPeople, or no peopleResponses
\* sequence
MalformedBody ==
    \/ requestData.syntax \in {"invalid", "null"}
    \/ /\ requestData.syntax = "object"
       /\ \/ ~requestData.movieSetUpPreferences.present
          \/ ~requestData.movieSetUpPreferences.time.present
          \/ ~requestData.movieSetUpPreferences.numberOfPeople.present
          \/ requestData.peopleResponses.kind # "array"

\* C7: a POST from an allowed origin with a malformed body is answered with
\* a 4xx response, and no remote call is attempted for it.
C7_MalformedBodyIsClientError ==
    MalformedBody =>
        /\ NoRemoteCall
        /\ pc = "returned"
        /\ response.status \in 400..499

\* the header set every response of the request must carry
ExpectedHeaders ==
    [allowOrigin      |-> IF OriginInAllowList THEN origin.value ELSE <<>>,
     allowMethods     |-> "POST, OPTIONS",
     allowHeaders     |-> "Content-Type, Authorization",
     allowCredentials |-> "true",
     contentType      |-> "application/json"]

\* C8: every response (204, 403, 405, 500, 200) carries the header set
\* computed at the start of the request; its Access-Control-Allow-Origin is
\* the caller's origin when that origin is present and allow-listed and is
\* empty otherwise, never an origin outside the allow-list.
C8_CorsHeadersOnEveryResponse ==
    /\ pc = "returned" =>
           /\ response.status \in {204, 403, 405, 500, 200}
           /\ response.headers = allowedHeaders
           /\ response.headers = ExpectedHeaders
    /\ pc \notin {"start", "idle"} => allowedHeaders = ExpectedHeaders
    /\ pc = "flush" => pending.headers = ExpectedHeaders

C8_Witness ==
    /\ pc = "returned"
    /\ response.status = 500
    /\ allowedOriginsVar = Some(<<" ", "a", " ", ",", " ", "b">>)
    /\ response.headers.allowOrigin = <<"b">>

\* the lookup's results that reach the threshold
Qualifying == {i \in 1..Len(sm.results) : sm.results[i].score >= sm.matchThreshold}

\* C9: searchMovies returns exactly the results of the store's lookup
\* (limit = matchCount) whose score is >= matchThreshold, in the store's
\* order: every returned candidate reaches the threshold, at most matchCount
\* are returned, no qualifying result is dropped, and a candidate whose
\* document cannot be fetched is returned with empty content.
C9_SearchMoviesFiltersByThreshold ==
    sm.phase = "returned" =>
        /\ sm.results = SubSeq(sm.ranking, 1, Len(sm.results))
        /\ Len(sm.results) = Min(sm.matchCount, Len(sm.ranking))
        /\ Len(sm.movies) <= sm.matchCount
        /\ Len(sm.movies) = Cardinality(Qualifying)
        /\ \A k \in 1..Len(sm.movies) :
               /\ sm.movies[k].score >= sm.matchThreshold
               /\ \E i \in Qualifying :
                      /\ Cardinality({j \in Qualifying : j <= i}) = k
                      /\ sm.movies[k].id = sm.results[i].id
                      /\ sm.movies[k].score = sm.results[i].score
                      /\ sm.movies[k].content =
                             IF sm.docs[sm.results[i].id].present
                             THEN sm.docs[sm.results[i].id].value
                             ELSE <<>>

C9_Witness ==
    /\ sm.phase = "returned"
    /\ Len(sm.ranking) > sm.matchCount
    /\ Len(sm.movies) = 2
    /\ Len(sm.results) = 3
    /\ sm.movies[2].score = sm.matchThreshold
    /\ ~sm.docs[sm.movies[1].id].present
    /\ sm.movies[1].content = <<>>
    /\ sm.movies[1].id > sm.movies[2].id

\* the search span was closed with the statistics of an empty result
EmptyResultRecorded ==
    /\ Len(spans) >= 2
    /\ spans[2].ends >= 1
    /\ "resultsCount" \in DOMAIN spans[2].output
    /\ spans[2].output.resultsCount = 0

\* C10: for an empty candidate list the top, average and minimum score are
\* all 0; the search span of a request whose retrieval returned nothing
\* records them with resultsCount = 0, and the request goes on to the
\* generation stage.
C10_EmptyResultScoresZero ==
    /\ (Len(spans) >= 2 /\ spans[2].ends >= 1 /\ matchedResults = <<>>
        /\ "error" \notin DOMAIN spans[2].output) => EmptyResultRecorded
    /\ EmptyResultRecorded =>
           /\ matchedResults = <<>>
           /\ spans[2].output.topScore = 0
           /\ spans[2].output.avgScore.num = 0
           /\ spans[2].output.avgScore.den # 0
           /\ spans[2].output.minScore = 0
           /\ Len(spans) = 3
           /\ spans[3].name = "llm-generation"
           /\ \E i \in 1..Len(calls) : calls[i] = "openai.chat.completions.create"
           /\ trace.updates # <<>> =>
                  trace.updates[1].output # [error |-> SearchErrorLabel]

C10_Witness ==
    /\ pc = "generation"
    /\ matchedResults = <<>>
    /\ EmptyResultRecorded
    /\ spans[2].output.minScore = 0

\* the remote calls made so far, in order
RemoteCallsMade == SelectSeq(calls, LAMBDA c : c \in RemoteCalls)

PipelineOrder ==
    <<"openai.embeddings.create", "convex.searchMovies", "openai.chat.completions.create">>

\* span i was closed by the success branch of its call
SpanSucceeded(i) ==
    /\ Len(spans) >= i
    /\ spans[i].ends >= 1
    /\ "error" \notin DOMAIN spans[i].output

\* C11: within one request each remote call is made at most once and in the
\* order embedding, vector search, generation; the search is called only
\* after the embedding call succeeded, the generation only after the search
\* succeeded; a failed call is not retried; a 200 is returned only if all
\* three calls succeeded, and a 500 carries neither candidates nor text.
C11_SequentialFailFast ==
    /\ RemoteCallsMade = SubSeq(PipelineOrder, 1, Len(RemoteCallsMade))
    /\ Len(RemoteCallsMade) >= 2 => (SpanSucceeded(1) /\ embedding # NoEmbedding)
    /\ Len(RemoteCallsMade) >= 3 => SpanSucceeded(2)
    /\ (pc = "flush" /\ pending.status = 500) =>
           /\ "error" \in DOMAIN spans[Len(spans)].output
           /\ Len(spans) = Len(RemoteCallsMade)
    /\ (pc = "returned" /\ response.status = 200) =>
           /\ RemoteCallsMade = PipelineOrder
           /\ SpanSucceeded(1) /\ SpanSucceeded(2) /\ SpanSucceeded(3)
           /\ completion.choices # <<>>
    /\ (pc = "returned" /\ response.status = 500) =>
           DOMAIN response.body = {"kind", "error", "details"}

C11_Witness ==
    /\ pc = "returned"
    /\ response.status = 500
    /\ response.body.error = SearchErrorLabel
    /\ RemoteCallsMade = SubSeq(PipelineOrder, 1, 2)
    /\ embedding # NoEmbedding

SpanNames == <<"generate-embedding", "vector-search", "llm-generation">>

OpenSpans == {i \in 1..Len(spans) : spans[i].ends = 0}

\* C12: every span opened is closed on the success and on the failure branch
\* of its call, so none is open when the response is returned; the spans are
\* opened in the order embedding, search, generation, and a span is opened
\* only after the previous one was closed (at most one is open at a time).
C12_SpansClosedInOrder ==
    /\ Len(spans) <= 3
    /\ \A i \in 1..Len(spans) : spans[i].name = SpanNames[i]
    /\ OpenSpans \subseteq {Len(spans)}
    /\ pc \in {"embedding", "search", "generation"} <=> OpenSpans # {}
    /\ pc \in {"flush", "returned", "threw"} => OpenSpans = {}

C12_Witness ==
    /\ pc = "returned"
    /\ response.status = 500
    /\ Len(spans) = 3
    /\ "error" \in DOMAIN spans[3].output
    /\ OpenSpans = {}

\* C13: for a request that opens a trace, the trace is ended exactly once and
\* each span exactly once on every path, the path where the flush awaited in
\* the try block of the generation stage throws included.
C13_EndedExactlyOnce ==
    /\ trace.ends <= 1
    /\ \A i \in 1..Len(spans) : spans[i].ends <= 1
    /\ (pc \in {"returned", "threw"} /\ trace.created >= 1) =>
           /\ trace.ends = 1
           /\ \A i \in 1..Len(spans) : spans[i].ends = 1

\* C14: on every path on which a trace was opened and a response is
\* returned, the trace was ended and the flush completed before the return;
\* no response is returned while a flush is pending or not yet started.
C14_FlushBeforeResponse ==
    /\ (pc = "returned" /\ trace.created >= 1) =>
           /\ trace.ends >= 1
           /\ flushed >= 1
           /\ calls[Len(calls)] = "opik.flush"
           /\ response.status \in {200, 500}
    /\ (pc # "returned") => response = NoResponse
    /\ pc = "flush" => (trace.ends >= 1 /\ calls[Len(calls)] = "opik.flush")
    /\ flushed <= FlushCalls

C14_Witness ==
    /\ pc = "returned"
    /\ response.status = 200
    /\ flushed = 1
    /\ trace.ends = 1

\* C15: every request ends in exactly one response returned by the handler:
\* never none (the handler does not end by an uncaught exception) and never
\* more than one.
C15_ExactlyOneResponse ==
    /\ pc # "threw"
    /\ pc = "returned" => response.status \in {200, 204, 403, 405, 500}
    /\ pc # "returned" => response = NoResponse

\* the body was read and holds what lines 82-89 need
BodyWasParsed ==
    /\ requestData.syntax = "object"
    /\ requestData.movieSetUpPreferences.present
    /\ requestData.peopleResponses.kind = "array"

\* C16 as stated: exactly one trace is created for every request, the
\* requests answered 204, 403 and 405 included.
C16_AsStated ==
    pc \in {"returned", "threw"} => trace.created = 1

\* C16 amended: at most one trace is created per request: exactly one for a
\* POST from an allow-listed origin whose body was parsed, whatever the
\* outcome of the pipeline, and none for a request answered 204, 403 or 405
\* or whose body parsing throws.
C16_OneTracePerParsedPost ==
    /\ trace.created <= 1
    /\ trace.created = 1 <=>
           (method = "POST" /\ OriginInAllowList /\ BodyWasParsed)
    /\ trace.created = 1 <=> (\E i \in 1..Len(calls) : calls[i] = "opik.trace")
    /\ (pc = "returned" /\ response.status \in {204, 403, 405}) => trace.created = 0
    /\ (pc = "returned" /\ response.status \in {200, 500}) => trace.created = 1

C16_Witness ==
    /\ pc = "returned"
    /\ response.status = 500
    /\ trace.created = 1
    /\ Len(trace.updates) = 1

\* metadata of the last trace.update
FinalMetadata == trace.updates[Len(trace.updates)].metadata

\* C17: on a successful request the totalTokens recorded on the trace is the
\* estimated token count of the embedding call plus the total token count
\* of the generation call (0 when usage is omitted), as totalCost is the
\* embedding cost plus the generation cost.
C17_TotalsAccumulated ==
    (pc = "returned" /\ response.status = 200) =>
        LET estimatedTokens == CeilDiv(Len(EmbeddingInput(requestData)), 4)
        IN  /\ FinalMetadata.totalCost =
                   calculateCost(estimatedTokens, 0, "text-embedding-3-small")
                   + calculateCost(UsageOrZero(completion.usage, "prompt_tokens"),
                                   UsageOrZero(completion.usage, "completion_tokens"),
                                   "gpt-4o-mini")
            /\ FinalMetadata.totalTokens =
                   estimatedTokens + UsageOrZero(completion.usage, "total_tokens")

\* the prompt of the generation call was built
PromptBuilt == Len(spans) = 3

\* what follows "Movie Recommendations: " in the user message
MovieContext ==
    LET user == chatMessages.user
        at   == CHOOSE i \in 1..Len(user) : user[i] = "\n Movie Recommendations: "
    IN  SubSeq(user, at + 1, Len(user))

\* the blocks of the movie context, separated by blank lines
ContextBlocks ==
    IF MovieContext = <<>> THEN <<>> ELSE Split(MovieContext, "\n\n")

\* C18 as stated: the user message holds the content of every candidate the
\* retriever returned, in order, separated by blank lines, a candidate with
\* empty content included.
C18_AsStated ==
    PromptBuilt =>
        /\ Len(ContextBlocks) = Len(matchedResults)
        /\ \A i \in 1..Len(matchedResults) : ContextBlocks[i] = matchedResults[i].content

\* C18 amended: the user message holds the content of every candidate whose
\* content is not empty, in retrieval order, separated by blank lines; a
\* candidate with empty content has no block in the prompt, though it is
\* returned in movieRecommendations.
C18_NonEmptyContentsInPrompt ==
    PromptBuilt =>
        LET shown == {i \in 1..Len(matchedResults) : matchedResults[i].content # <<>>}
        IN  /\ Len(ContextBlocks) = Cardinality(shown)
            /\ \A i \in shown :
                   ContextBlocks[Cardinality({j \in shown : j <= i})]
                       = matchedResults[i].content
            /\ (pc = "returned" /\ response.status = 200
                /\ response.body.movieRecommendations.present) =>
                   response.body.movieRecommendations.value = matchedResults

C18_Witness ==
    /\ pc = "returned"
    /\ response.status = 200
    /\ response.body.movieRecommendations.present
    /\ Len(response.body.movieRecommendations.value) = 3
    /\ response.body.movieRecommendations.value[2].content = <<>>
    /\ ContextBlocks = << <<"m1">>, <<"m3">> >>

\* what an invocation holding the locals L has recorded follows from its own
\* request and from the replies its own calls received
Alone(L) ==
    LET estimatedTokens == CeilDiv(Len(EmbeddingInput(L.requestData)), 4)
        embeddingCost   == IF L.embedding = NoEmbedding THEN 0
                           ELSE calculateCost(estimatedTokens, 0, "text-embedding-3-small")
        generationCost  == calculateCost(UsageOrZero(L.completion.usage, "prompt_tokens"),
                                         UsageOrZero(L.completion.usage, "completion_tokens"),
                                         "gpt-4o-mini")
        names           == <<"generate-embedding", "vector-search", "llm-generation">>
    IN  /\ L.allowedHeaders \in {NoHeaders, corsHeaders(L.origin, allowedOriginsVar)}
        /\ L.totalCost = embeddingCost + generationCost
        /\ L.totalTokens = UsageOrZero(L.completion.usage, "total_tokens")
        /\ Len(L.spans) <= 3
        /\ \A i \in 1..Len(L.spans) : L.spans[i].name = names[i]
        /\ Len(L.spans) >= 2 => L.spans[2].input.embeddingDimensions = L.embedding.length
        /\ Len(L.spans) = 3 =>
               /\ L.chatMessages = BuildChatMessages(L.requestData, L.matchedResults)
               /\ L.spans[3].input.userPromptLength = Len(L.chatMessages.user)
               /\ L.spans[2].output.resultsCount = Len(L.matchedResults)
        /\ Len(L.spans) < 3 => L.chatMessages = NoChatMessages /\ L.matchedResults = <<>>
        /\ L.trace.created <= 1
        /\ (L.pc = "returned" /\ L.response.status \in {200, 500}) =>
               /\ L.response.headers = corsHeaders(L.origin, allowedOriginsVar)
               /\ L.trace.updates # <<>>
        /\ (L.pc = "returned" /\ L.response.status = 200) =>
               LET metadata == L.trace.updates[Len(L.trace.updates)].metadata
               IN  /\ L.response.body =
                          JsonBody(buildResponseObject(L.completion.choices[1].message.content,
                                                       L.matchedResults))
                   /\ metadata.totalCost = L.totalCost
                   /\ metadata.totalTokens = L.totalTokens

\* the invocation that is running keeps to its own request
HandledAlone == Alone(Locals(1))

\* C19: of two invocations of fetch interleaved at their awaits, each has
\* the response, the spans and the trace totals that its own request and the
\* replies to its own calls determine, as an invocation running alone has.
C19_ConcurrentRequestsIsolated ==
    /\ HandledAlone
    /\ parked.id # 0 => Alone(parked)

\* both invocations are past their embedding call, with different totals, and
\* the one that is running has returned its answer
C19_Witness ==
    /\ parked.id # 0
    /\ pc = "returned" /\ response.status = 200
    /\ parked.pc \in {"generation", "flush"}
    /\ totalCost # parked.totalCost
    /\ matchedResults # parked.matchedResults

\* the handler has returned a response, or is at an await that can still
\* complete
RespondedOrPending == pc = "returned" \/ ENABLED Next

\* no call is repeated: at most three remote calls, in pipeline order
NoRetry ==
    /\ Len(RemoteCallsMade) <= 3
    /\ RemoteCallsMade = SubSeq(PipelineOrder, 1, Len(RemoteCallsMade))

\* C20: when body parsing, every remote call and every flush returns or
\* fails, the request reaches a response after at most three remote calls
\* and one flush; the handler stops short of a response only while a call
\* is still pending.
C20_RespondsWithinBoundedSteps ==
    /\ RespondedOrPending
    /\ NoRetry
    /\ FlushCalls <= 1

====
